---- MODULE Spec2Model ----
(***************************************************************************)
(* Model of src/sales_analysis.py: a straight-line batch script that loads *)
(* a sales table, derives calendar fields, computes KPIs and the monthly   *)
(* revenue series, the ABC product table, the RFM customer table with its  *)
(* scores and segments, and writes one CSV and five chart images.          *)
(*                                                                         *)
(* Numbers.  Sale totals are non-negative integers.  Every quotient the    *)
(* script forms (percentages, quantile edges, equal-width edges) is kept   *)
(* exact, as a numerator over a denominator or as an integer scaled by a   *)
(* fixed factor; the float "not a number", which 0/0 gives, is kept as a   *)
(* value of its own that compares false with everything.                   *)
(*                                                                         *)
(* Cells.  No cell is missing: a date cell is either a calendar date or a  *)
(* value that pd.to_datetime cannot parse.  The table has at least one     *)
(* row.                                                                    *)
(*                                                                         *)
(* Spec is the whole script on small tables.  SpecAbc, SpecScore and       *)
(* SpecSegment start the script at a later statement, on tables with more  *)
(* products, more customers, or any scores, than Spec enumerates.          *)
(***************************************************************************)
EXTENDS Integers, Sequences, FiniteSets, TLC

VARIABLES
    pc,             \* position of the script: the stage that has completed
    df,             \* the data frame: a sequence of rows
    kpi,            \* total_sales, transactions, avg_ticket, unique_customers
    monthly_sales,  \* sequence of [Period, Total_Sale], one per month present
    products,       \* the ABC table
    rfm,            \* the RFM table
    csv,            \* content of results/rfm_analysis.csv ("<<>>": not written)
    charts          \* names of the chart images written

vars == <<pc, df, kpi, monthly_sales, products, rfm, csv, charts>>

----------------------------------------------------------------------------
(* Bounds and sample inputs *)

MaxRows == 2            \* rows of the input table (main pipeline)
MaxProducts == 3        \* products of the input table (ABC stage alone)
MaxCustomers == 5       \* customers of the input table (RFM scoring alone)

Customers == {1, 2}     \* customer ids of the main pipeline
Products == {1, 2}      \* product ids of the main pipeline
Totals == {0, 1, 4}     \* Total_Sale values of the main pipeline

\* Date cells as they stand in the sheet: <<year, month, day>>.
\* <<2024, 2, 30>> is not a calendar date.
DateCells ==
    { <<2023, 1, 31>>, <<2024, 1, 1>>, <<2024, 1, 30>>, <<2024, 2, 30>> }

\* Inputs of the ABC stage taken alone: one sale per product
AbcTotals == {0, 1, 3, 4, 16, 19}

\* Inputs of the RFM scoring taken alone
ScoreDateCells ==
    { <<2024, 1, 1>>, <<2024, 1, 2>>, <<2024, 1, 3>>, <<2024, 1, 5>>,
      <<2024, 1, 9>> }
ScoreTotals == {1, 2, 3}

----------------------------------------------------------------------------
(* Generic helpers *)

Min(S) == CHOOSE x \in S : \A y \in S : x <= y
Max(S) == CHOOSE x \in S : \A y \in S : x >= y

RECURSIVE SumSeq(_)
SumSeq(s) == IF s = <<>> THEN 0 ELSE Head(s) + SumSeq(Tail(s))

RECURSIVE SortedSeq(_)
\* the elements of a finite set of integers in ascending order
SortedSeq(S) ==
    IF S = {} THEN <<>> ELSE <<Min(S)>> \o SortedSeq(S \ {Min(S)})

\* a sequence given by a rule, with its elements worked out
Tuple(s) == SubSeq(s, 1, Len(s))

Column(t, name) == Tuple([i \in 1..Len(t) |-> t[i][name]])

\* the orders a descending sort on field `by` may leave the rows of t in:
\* sort_values uses its default, quicksort, which fixes no order among ties
DescendingOrders(t, by) ==
    { p \in [1..Len(t) -> 1..Len(t)] :
        /\ \A i, j \in 1..Len(t) : i # j => p[i] # p[j]
        /\ \A i, j \in 1..Len(t) : i < j => t[p[i]][by] >= t[p[j]][by] }

Reorder(t, p) == Tuple([i \in 1..Len(t) |-> t[p[i]]])

----------------------------------------------------------------------------
(* Calendar: pd.to_datetime and Series.dt.to_period("M") *)

IsLeap(y) == (y % 4 = 0 /\ y % 100 # 0) \/ y % 400 = 0

DaysInMonth(y, m) ==
    IF m = 2 THEN (IF IsLeap(y) THEN 29 ELSE 28)
    ELSE IF m \in {4, 6, 9, 11} THEN 30 ELSE 31

IsCalendarDate(c) ==
    /\ c[1] >= 1
    /\ c[2] \in 1..12
    /\ c[3] >= 1 /\ c[3] <= DaysInMonth(c[1], c[2])

DaysBeforeYear(y) ==
    (y - 1) * 365 + ((y - 1) \div 4) - ((y - 1) \div 100) + ((y - 1) \div 400)

RECURSIVE DaysBeforeMonth(_, _)
DaysBeforeMonth(y, m) ==
    IF m = 1 THEN 0 ELSE DaysBeforeMonth(y, m - 1) + DaysInMonth(y, m - 1)

\* A parsed date is a Timestamp: a count of days on the proleptic calendar.
ToDatetime(c) == DaysBeforeYear(c[1]) + DaysBeforeMonth(c[1], c[2]) + c[3]

YearOf(t) ==
    CHOOSE y \in (t \div 366)..(t \div 365 + 1) :
        DaysBeforeYear(y) < t /\ t <= DaysBeforeYear(y + 1)

MonthOf(t) ==
    LET y == YearOf(t)
        d == t - DaysBeforeYear(y)
    IN  CHOOSE m \in 1..12 :
            DaysBeforeMonth(y, m) < d /\ d <= DaysBeforeMonth(y, m) + DaysInMonth(y, m)

\* Series.dt.month in place of Series.dt.to_period("M"): the year is lost
MonthNumber(t) == MonthOf(t)

\* The monthly period of a Timestamp: months counted from year 0.
ToPeriodM(t) == YearOf(t) * 12 + (MonthOf(t) - 1)

----------------------------------------------------------------------------
(* Load and prepare *)

RawRows ==
    [Sale_Date : DateCells, Customer : Customers, Product : Products,
     Total_Sale : Totals]

NoKpi == [total_sales |-> 0, transactions |-> 0,
          avg_ticket |-> [nan |-> TRUE, num |-> 0, den |-> 0],
          unique_customers |-> 0]

Init ==
    /\ pc = "start"
    /\ df = <<>>
    /\ kpi = NoKpi
    /\ monthly_sales = <<>>
    /\ products = <<>>
    /\ rfm = <<>>
    /\ csv = <<>>
    /\ charts = {}

\* pd.read_excel: the sheet's rows, one after the other
ReadRow ==
    /\ pc = "start"
    /\ Len(df) < MaxRows
    /\ \E r \in RawRows : df' = Append(df, r)
    /\ UNCHANGED <<pc, kpi, monthly_sales, products, rfm, csv, charts>>

\* pd.to_datetime(..., errors="coerce") followed by dropna: a row whose date
\* does not parse is skipped and the run goes on
PrepareSkipBad ==
    /\ pc = "start"
    /\ Len(df) >= 1
    /\ LET Good(r) == IsCalendarDate(r.Sale_Date)
           kept == SelectSeq(df, Good)
       IN  df' = [i \in 1..Len(kept) |->
                    [kept[i] EXCEPT !.Sale_Date = ToDatetime(kept[i].Sale_Date)]]
    /\ pc' = "prepared"
    /\ UNCHANGED <<kpi, monthly_sales, products, rfm, csv, charts>>

\* df["Sale_Date"] = pd.to_datetime(df["Sale_Date"]): raises on a cell that
\* is no date, and the script has no handler
Prepare ==
    /\ pc = "start"
    /\ Len(df) >= 1
    /\ IF \A i \in 1..Len(df) : IsCalendarDate(df[i].Sale_Date)
       THEN /\ df' = [i \in 1..Len(df) |->
                        [df[i] EXCEPT !.Sale_Date = ToDatetime(df[i].Sale_Date)]]
            /\ pc' = "prepared"
       ELSE /\ pc' = "aborted"
            /\ UNCHANGED df
    /\ UNCHANGED <<kpi, monthly_sales, products, rfm, csv, charts>>

----------------------------------------------------------------------------
(* KPIs and the monthly series *)

\* a quotient num/den as the float division gives it: 0/0 is not a number
Divide(n, d) == [nan |-> (d = 0), num |-> n, den |-> d]

TotalSales(t) == SumSeq(Column(t, "Total_Sale"))

Kpis(t) ==
    [total_sales |-> TotalSales(t),
     transactions |-> Len(t),
     avg_ticket |-> Divide(TotalSales(t), Len(t)),
     unique_customers |-> Cardinality({t[i].Customer : i \in 1..Len(t)})]

\* df.groupby(df["Sale_Date"].dt.to_period("M"))["Total_Sale"].sum():
\* the groups are the periods that occur, in ascending order
MonthlySales(t) ==
    LET periods == SortedSeq({ToPeriodM(t[i].Sale_Date) : i \in 1..Len(t)})
        InMonth(p) == LET Test(r) == ToPeriodM(r.Sale_Date) = p
                      IN  SelectSeq(t, Test)
    IN  [k \in 1..Len(periods) |->
            [Period |-> periods[k], Total_Sale |-> TotalSales(InMonth(periods[k]))]]

ComputeKpis ==
    /\ pc = "prepared"
    /\ kpi' = Kpis(df)
    /\ monthly_sales' = MonthlySales(df)
    /\ pc' = "kpis"
    /\ UNCHANGED <<df, products, rfm, csv, charts>>

----------------------------------------------------------------------------
(* ABC classification of the products *)

\* df.groupby("Product").agg(Num_Sales, Revenue): one row per product that
\* occurs, in ascending order of the product
GroupProducts(t) ==
    LET keys == SortedSeq({t[i].Product : i \in 1..Len(t)})
        Of(p) == LET Test(r) == r.Product = p IN SelectSeq(t, Test)
    IN  Tuple([k \in 1..Len(keys) |->
            [Product |-> keys[k],
             Num_Sales |-> Len(Of(keys[k])),
             Revenue |-> TotalSales(Of(keys[k]))]])

\* x * 100 for a quotient x
Times100(x) == [x EXCEPT !.num = @ * 100]

\* the running sum of quotients over one denominator; a term that is not a
\* number makes the sum from there on not a number
RECURSIVE CumSum(_)
CumSum(s) ==
    IF Len(s) <= 1 THEN s
    ELSE LET init == CumSum(SubSeq(s, 1, Len(s) - 1))
             prev == init[Len(init)]
             last == s[Len(s)]
         IN  Append(init, [nan |-> prev.nan \/ last.nan,
                           num |-> prev.num + last.num,
                           den |-> last.den])

\* x <= c for a quotient x and an integer c: false when x is not a number
LessEq(x, c) == ~x.nan /\ x.num <= c * x.den

ABC_A == 80
ABC_B == 95

\* x < c for a quotient x and an integer c
Less(x, c) == ~x.nan /\ x.num < c * x.den

\* the thresholds taken exclusive: "<" written for "<="
ABC_Category_strict(x) ==
    IF Less(x, ABC_A) THEN "A" ELSE IF Less(x, ABC_B) THEN "B" ELSE "C"

\* lambda x: "A" if x <= 80 else "B" if x <= 95 else "C"
ABC_Category(x) ==
    IF LessEq(x, ABC_A) THEN "A" ELSE IF LessEq(x, ABC_B) THEN "B" ELSE "C"

\* Revenue_Pct of every row of a products table
Revenue_Pct(t) ==
    LET total == SumSeq(Column(t, "Revenue"))
    IN  Tuple([i \in 1..Len(t) |-> Times100(Divide(t[i].Revenue, total))])

\* the products table for the rows sorted in order p
AbcTable(t, p) ==
    LET sorted == Reorder(GroupProducts(t), p)
        pct == Revenue_Pct(sorted)
        cum == CumSum(pct)
    IN  [i \in 1..Len(sorted) |->
            [Product |-> sorted[i].Product,
             Num_Sales |-> sorted[i].Num_Sales,
             Revenue |-> sorted[i].Revenue,
             Revenue_Pct |-> pct[i],
             Cum_Pct |-> cum[i],
             ABC_Category |-> ABC_Category(cum[i])]]

Abc ==
    /\ pc = "kpis"
    /\ \E p \in DescendingOrders(GroupProducts(df), "Revenue") :
            products' = AbcTable(df, p)
    /\ pc' = "abc"
    /\ UNCHANGED <<df, kpi, monthly_sales, rfm, csv, charts>>

----------------------------------------------------------------------------
(* RFM table *)

\* the reference date without the added day
ReferenceDate_no_day(t) == Max({t[i].Sale_Date : i \in 1..Len(t)})

\* reference_date = df["Sale_Date"].max() + pd.Timedelta(days=1)
ReferenceDate(t) == Max({t[i].Sale_Date : i \in 1..Len(t)}) + 1

\* df.groupby("Customer").agg(Recency, Frequency, Monetary).reset_index()
RfmTable(t) ==
    LET keys == SortedSeq({t[i].Customer : i \in 1..Len(t)})
        Of(c) == LET Test(r) == r.Customer = c IN SelectSeq(t, Test)
        LastSale(c) == Max({Of(c)[i].Sale_Date : i \in 1..Len(Of(c))})
    IN  [k \in 1..Len(keys) |->
            [Customer |-> keys[k],
             Recency |-> ReferenceDate(t) - LastSale(keys[k]),
             Frequency |-> Len(Of(keys[k])),
             Monetary |-> TotalSales(Of(keys[k]))]]

RfmAggregate ==
    /\ pc = "abc"
    /\ rfm' = RfmTable(df)
    /\ pc' = "rfm_agg"
    /\ UNCHANGED <<df, kpi, monthly_sales, products, csv, charts>>

\* a score no bin was found for
NaN == -1

CountLess(s, x) == Cardinality({i \in 1..Len(s) : s[i] < x})
CountLessEq(s, x) == Cardinality({i \in 1..Len(s) : s[i] <= x})

\* the k-th smallest value of series s, duplicates counted
Kth(s, k) ==
    CHOOSE x \in {s[i] : i \in 1..Len(s)} :
        CountLess(s, x) < k /\ k <= CountLessEq(s, x)

\* Series.rank(method="min"): ties share the lowest rank of their group
RankMin(s) == Tuple([i \in 1..Len(s) |-> 1 + CountLess(s, s[i])])

\* Series.rank(method="first"): ties ranked in the order of the rows
RankFirst(s) ==
    Tuple([i \in 1..Len(s) |->
            1 + CountLess(s, s[i])
              + Cardinality({j \in 1..Len(s) : j < i /\ s[j] = s[i]})])

\* the six quantiles of s at np.linspace(0, 1, 6), linear interpolation,
\* each times 5; edge k of 0..5 stands at index k + 1
QuantileEdges(s) ==
    Tuple([e \in 1..6 |->
        LET pos == (e - 1) * (Len(s) - 1)
            j == pos \div 5
            g == pos % 5
        IN  IF g = 0 THEN 5 * Kth(s, j + 1)
            ELSE 5 * Kth(s, j + 1) + g * (Kth(s, j + 2) - Kth(s, j + 1))])

\* the label of the bin, open on the left and closed on the right, that a
\* value falls in, the lowest edge included when lowest is set; NaN outside
\* every bin
BinLabel(edges, x, labels, lowest) ==
    LET ids == IF lowest /\ x = edges[1] THEN 1
               ELSE Cardinality({e \in 1..6 : edges[e] < x})
    IN  IF ids \in 1..5 THEN labels[ids] ELSE NaN

\* pd.qcut(s, 5, labels, duplicates="drop"): repeated edges are dropped, and
\* five labels on fewer than five bins raise ValueError
Qcut(s, labels) ==
    LET edges == QuantileEdges(s)
    IN  IF Cardinality({edges[e] : e \in 1..6}) # 6
        THEN [ok |-> FALSE, values |-> <<>>]
        ELSE [ok |-> TRUE,
              values |-> Tuple([i \in 1..Len(s) |->
                            BinLabel(edges, 5 * s[i], labels, TRUE)])]

Abs(x) == IF x < 0 THEN 0 - x ELSE x

\* the six edges of pd.cut(s, 5), each times 5000: the range of s in five
\* equal parts, the lowest edge moved down by 0.1% of the range; a series
\* of one value v gets the range v -/+ 0.1% of |v| (-/+ 0.001 for v = 0)
EqualWidthEdges(s) ==
    LET vals == {s[i] : i \in 1..Len(s)}
        mn == Min(vals)
        mx == Max(vals)
        pad == IF mn # 0 THEN 5 * Abs(mn) ELSE 5
    IN  IF mn = mx
        THEN Tuple([e \in 1..6 |->
                5000 * mn - pad + (e - 1) * ((2 * pad) \div 5)])
        ELSE Tuple([e \in 1..6 |->
                IF e = 1 THEN 5000 * mn - 5 * (mx - mn)
                ELSE 5000 * mn + 1000 * (e - 1) * (mx - mn)])

Cut(s, labels) ==
    LET edges == EqualWidthEdges(s)
    IN  Tuple([i \in 1..Len(s) |->
                BinLabel(edges, 5000 * s[i], labels, FALSE)])

RecencyLabels == <<5, 4, 3, 2, 1>>
ValueLabels == <<1, 2, 3, 4, 5>>

\* rfm_score with labels=False: the bins' ordinals 0..4 in place of labels
rfm_score_codes(s, ascending) ==
    LET q == Qcut(s, ValueLabels)
        v == IF q.ok THEN q.values ELSE Cut(s, ValueLabels)
    IN  Tuple([i \in 1..Len(s) |-> v[i] - 1])

\* rfm_score whose handler gives up: no equal-width binning, every score of
\* the series is left unassigned
rfm_score_no_fallback(s, ascending) ==
    LET labels == IF ascending THEN RecencyLabels ELSE ValueLabels
        q == Qcut(s, labels)
    IN  IF q.ok THEN q.values ELSE Tuple([i \in 1..Len(s) |-> NaN])

\* def rfm_score(series, ascending=True)
rfm_score(s, ascending) ==
    LET labels == IF ascending THEN RecencyLabels ELSE ValueLabels
        q == Qcut(s, labels)
    IN  IF q.ok THEN q.values ELSE Cut(s, labels)

\* rfm["R"], rfm["F"], rfm["M"]
Scored(t) ==
    LET R == rfm_score(Column(t, "Recency"), TRUE)
        F == rfm_score(RankFirst(Column(t, "Frequency")), FALSE)
        M == rfm_score(RankFirst(Column(t, "Monetary")), FALSE)
    IN  [i \in 1..Len(t) |->
            [Customer |-> t[i].Customer, Recency |-> t[i].Recency,
             Frequency |-> t[i].Frequency, Monetary |-> t[i].Monetary,
             R |-> R[i], F |-> F[i], M |-> M[i]]]

RfmScore ==
    /\ pc = "rfm_agg"
    /\ rfm' = Scored(rfm)
    /\ pc' = "rfm_scored"
    /\ UNCHANGED <<df, kpi, monthly_sales, products, csv, charts>>

Neutral == 3

FillScore(x) == IF x = NaN THEN Neutral ELSE x

\* rfm = rfm.fillna(3)
Fillna(t) ==
    [i \in 1..Len(t) |->
        [t[i] EXCEPT !.R = FillScore(@), !.F = FillScore(@), !.M = FillScore(@)]]

RfmFillna ==
    /\ pc = "rfm_scored"
    /\ rfm' = Fillna(rfm)
    /\ pc' = "rfm_filled"
    /\ UNCHANGED <<df, kpi, monthly_sales, products, csv, charts>>

\* segment_customer with its first two tests in the other order
segment_customer_loyal_first(r, f, m) ==
    IF f >= 4 /\ m >= 4 THEN "Loyal"
    ELSE IF r >= 4 /\ f >= 4 /\ m >= 4 THEN "Champions"
    ELSE IF r >= 4 /\ f <= 2 THEN "Potential"
    ELSE IF r <= 2 /\ f >= 3 THEN "At Risk"
    ELSE IF r <= 2 /\ f <= 2 THEN "Lost"
    ELSE "Occasional"

\* def segment_customer(row)
segment_customer(r, f, m) ==
    IF r >= 4 /\ f >= 4 /\ m >= 4 THEN "Champions"
    ELSE IF f >= 4 /\ m >= 4 THEN "Loyal"
    ELSE IF r >= 4 /\ f <= 2 THEN "Potential"
    ELSE IF r <= 2 /\ f >= 3 THEN "At Risk"
    ELSE IF r <= 2 /\ f <= 2 THEN "Lost"
    ELSE "Occasional"

Segmented(t) ==
    [i \in 1..Len(t) |->
        [Customer |-> t[i].Customer, Recency |-> t[i].Recency,
         Frequency |-> t[i].Frequency, Monetary |-> t[i].Monetary,
         R |-> t[i].R, F |-> t[i].F, M |-> t[i].M,
         Segment |-> segment_customer(t[i].R, t[i].F, t[i].M)]]

\* rfm["Segment"] = rfm.apply(...); rfm.sort_values("Monetary", ascending=False)
RfmSegment ==
    /\ pc = "rfm_filled"
    /\ \E p \in DescendingOrders(rfm, "Monetary") :
            rfm' = Reorder(Segmented(rfm), p)
    /\ pc' = "rfm_segmented"
    /\ UNCHANGED <<df, kpi, monthly_sales, products, csv, charts>>

----------------------------------------------------------------------------
(* Outputs *)

\* rfm.to_csv(...)
WriteCsv ==
    /\ pc = "rfm_segmented"
    /\ csv' = rfm
    /\ pc' = "csv"
    /\ UNCHANGED <<df, kpi, monthly_sales, products, rfm, charts>>

ChartFiles ==
    {"1_monthly_sales_trend.png", "2_top_customers.png",
     "3_rfm_segments_distribution.png", "4_top_products.png",
     "5_pareto_products.png"}

\* the five plt.savefig calls
WriteCharts ==
    /\ pc = "csv"
    /\ charts' = ChartFiles
    /\ pc' = "done"
    /\ UNCHANGED <<df, kpi, monthly_sales, products, rfm, csv>>

Next ==
    \/ ReadRow \/ Prepare \/ ComputeKpis \/ Abc \/ RfmAggregate \/ RfmScore
    \/ RfmFillna \/ RfmSegment \/ WriteCsv \/ WriteCharts

Spec == Init /\ [][Next]_vars

----------------------------------------------------------------------------
(* The ABC stage alone: the script after the KPI stage, on a table of one  *)
(* sale per product                                                        *)

Sale(date, customer, product, total) ==
    [Sale_Date |-> ToDatetime(date), Customer |-> customer,
     Product |-> product, Total_Sale |-> total]

InitAbc ==
    /\ \E n \in 1..MaxProducts : \E total \in [1..n -> AbcTotals] :
            df = [i \in 1..n |-> Sale(<<2024, 1, 1>>, 1, i, total[i])]
    /\ pc = "kpis"
    /\ kpi = Kpis(df)
    /\ monthly_sales = MonthlySales(df)
    /\ products = <<>>
    /\ rfm = <<>>
    /\ csv = <<>>
    /\ charts = {}

NextAbc == Abc

SpecAbc == InitAbc /\ [][NextAbc]_vars

----------------------------------------------------------------------------
(* The RFM scoring alone: the script after the ABC stage, on a table of    *)
(* one customer per id 1..n, all of one product, in which the sale dates,  *)
(* or the sale totals, or the number of sales per customer vary            *)

RECURSIVE SalesOf(_, _, _, _)
\* count[i] sales of total[i] on date[i] for each customer i of 1..n
SalesOf(n, date, total, count) ==
    IF n = 0 THEN <<>>
    ELSE SalesOf(n - 1, date, total, count)
         \o [k \in 1..count[n] |-> Sale(date[n], n, 1, total[n])]

InitScore ==
    /\ \E n \in 1..MaxCustomers :
        LET day == [i \in 1..n |-> <<2024, 1, 1>>]
            one == [i \in 1..n |-> 1]
        IN  \/ \E date \in [1..n -> ScoreDateCells] :
                    df = SalesOf(n, date, one, one)
            \/ \E total \in [1..n -> ScoreTotals] :
                    df = SalesOf(n, day, total, one)
            \/ \E count \in [1..n -> 1..2] :
                    df = SalesOf(n, day, one, count)
    /\ pc = "abc"
    /\ kpi = Kpis(df)
    /\ monthly_sales = MonthlySales(df)
    /\ products = AbcTable(df, <<1>>)
    /\ rfm = <<>>
    /\ csv = <<>>
    /\ charts = {}

NextScore == RfmAggregate \/ RfmScore \/ RfmFillna

SpecScore == InitScore /\ [][NextScore]_vars

----------------------------------------------------------------------------
(* segment_customer alone: one scored row of the RFM table, with any       *)
(* scores                                                                  *)

InitSegment ==
    /\ \E r, f, m \in 1..5 : \E money \in {0, 7} :
            rfm = << [Customer |-> 1, Recency |-> 1, Frequency |-> 1,
                      Monetary |-> money, R |-> r, F |-> f, M |-> m] >>
    /\ pc = "rfm_filled"
    /\ df = <<>>
    /\ kpi = NoKpi
    /\ monthly_sales = <<>>
    /\ products = <<>>
    /\ csv = <<>>
    /\ charts = {}

NextSegment == RfmSegment

SpecSegment == InitSegment /\ [][NextSegment]_vars

----------------------------------------------------------------------------
(* Properties *)

AfterKpis ==
    {"kpis", "abc", "rfm_agg", "rfm_scored", "rfm_filled", "rfm_segmented",
     "csv", "done"}
AfterAbc == AfterKpis \ {"kpis"}
AfterAggregate == AfterAbc \ {"abc"}
AfterFillna == {"rfm_filled", "rfm_segmented", "csv", "done"}
AfterSegment == {"rfm_segmented", "csv", "done"}

Rows(t) == 1..Len(t)
CustomersOf(t) == {t[i].Customer : i \in Rows(t)}
SalesTo(c) == LET Test(r) == r.Customer = c IN SelectSeq(df, Test)

\* C1: once the scores are computed and fillna(3) has run, every customer of
\* the input has a row in the RFM table and each of its R, F and M scores
\* is one of 1, 2, 3, 4, 5; none is missing.
C1_ScoresInRange ==
    pc \in AfterFillna =>
        /\ Len(df) >= 1
        /\ CustomersOf(rfm) = CustomersOf(df)
        /\ \A i \in Rows(rfm) :
            rfm[i].R \in 1..5 /\ rfm[i].F \in 1..5 /\ rfm[i].M \in 1..5

\* five customers whose F scores are the five labels and whose R scores
\* reach both ends
C1_Witness ==
    /\ pc = "rfm_filled"
    /\ Len(rfm) = 5
    /\ {rfm[i].F : i \in Rows(rfm)} = 1..5
    /\ {1, 5} \subseteq {rfm[i].R : i \in Rows(rfm)}

RuleMatches(k, r, f, m) ==
    CASE k = 1 -> r >= 4 /\ f >= 4 /\ m >= 4
      [] k = 2 -> f >= 4 /\ m >= 4
      [] k = 3 -> r >= 4 /\ f <= 2
      [] k = 4 -> r <= 2 /\ f >= 3
      [] k = 5 -> r <= 2 /\ f <= 2
      [] OTHER -> TRUE

RuleLabels ==
    <<"Champions", "Loyal", "Potential", "At Risk", "Lost", "Occasional">>

FirstMatch(r, f, m) == RuleLabels[Min({k \in 1..6 : RuleMatches(k, r, f, m)})]

\* C2: the segment of every row is the label of the first rule, in the
\* priority order Champions, Loyal, Potential, At Risk, Lost, Occasional,
\* that its (R, F, M) matches, whatever the row's other columns; (5,5,5) is
\* Champions, (1,1,1) Lost, (5,1,5) Potential and (3,3,3) Occasional.
C2_SegmentFirstMatch ==
    pc \in AfterSegment =>
        \A i \in Rows(rfm) :
            LET r == rfm[i].R
                f == rfm[i].F
                m == rfm[i].M
                t == <<r, f, m>>
            IN  /\ rfm[i].Segment = FirstMatch(r, f, m)
                /\ t = <<5, 5, 5>> => rfm[i].Segment = "Champions"
                /\ t = <<1, 1, 1>> => rfm[i].Segment = "Lost"
                /\ t = <<5, 1, 5>> => rfm[i].Segment = "Potential"
                /\ t = <<3, 3, 3>> => rfm[i].Segment = "Occasional"

\* the row (5, 1, 5) has been segmented
C2_Witness ==
    /\ pc = "rfm_segmented"
    /\ \E i \in Rows(rfm) :
        /\ <<rfm[i].R, rfm[i].F, rfm[i].M>> = <<5, 1, 5>>
        /\ rfm[i].Segment = "Potential"
        /\ rfm[i].Monetary = 7

\* the revenue of the first i rows of the products table and of all of them
RevenueUpTo(i) == SumSeq(SubSeq(Column(products, "Revenue"), 1, i))
RevenueOfAll == RevenueUpTo(Len(products))
\* the cumulative percentage of row i is at most c, is above c: comparisons
\* of the quotient 100 * RevenueUpTo(i) / RevenueOfAll, which no number
\* satisfies when the total is zero
PctAtMost(i, c) == RevenueOfAll > 0 /\ 100 * RevenueUpTo(i) <= c * RevenueOfAll
PctAbove(i, c) == RevenueOfAll > 0 /\ 100 * RevenueUpTo(i) > c * RevenueOfAll

\* C3: the products table is in descending order of revenue, every row's
\* category is one of A, B, C, and with the cumulative percentage taken in
\* that order: at most 80 gives A, above 80 and at most 95 gives B, above
\* 95 gives C.
C3_CategoryByCumulativePct ==
    pc \in AfterAbc =>
        /\ \A i, j \in Rows(products) :
            i < j => products[i].Revenue >= products[j].Revenue
        /\ \A i \in Rows(products) :
            /\ products[i].ABC_Category \in {"A", "B", "C"}
            /\ PctAtMost(i, 80) => products[i].ABC_Category = "A"
            /\ PctAbove(i, 80) /\ PctAtMost(i, 95)
                    => products[i].ABC_Category = "B"
            /\ PctAbove(i, 95) => products[i].ABC_Category = "C"

\* three products whose cumulative percentages are exactly 80, exactly 95
\* and 100
C3_Witness ==
    /\ pc = "abc"
    /\ Len(products) = 3
    /\ 100 * RevenueUpTo(1) = 80 * RevenueOfAll
    /\ 100 * RevenueUpTo(2) = 95 * RevenueOfAll
    /\ RevenueOfAll > 0
    /\ Column(products, "ABC_Category") = <<"A", "B", "C">>

\* C4: while the total revenue is zero the run does not get past the ABC
\* stage: no product has a category and nothing is written.
C4_ZeroRevenueFails ==
    TotalSales(df) = 0 =>
        /\ pc \notin AfterAbc
        /\ products = <<>>
        /\ csv = <<>>
        /\ charts = {}

HasBadDate(t) == \E i \in Rows(t) : ~IsCalendarDate(t[i].Sale_Date)

NothingComputed ==
    /\ kpi = NoKpi
    /\ monthly_sales = <<>>
    /\ products = <<>>
    /\ rfm = <<>>
    /\ csv = <<>>
    /\ charts = {}

\* C5: the step that leaves the load with a row whose date is no calendar
\* date ends the run: no row is dropped, no KPI, table, CSV or chart exists,
\* and no step follows.
C5_BadDateAborts ==
    [][ /\ (pc = "start" /\ pc' # "start" /\ HasBadDate(df))
            => (pc' = "aborted" /\ df' = df /\ NothingComputed')
        /\ pc = "aborted" => UNCHANGED vars ]_vars

\* a run aborted on its second row, the first being a good date
C5_Witness ==
    /\ pc = "aborted"
    /\ Len(df) = 2
    /\ IsCalendarDate(df[1].Sale_Date)
    /\ ~IsCalendarDate(df[2].Sale_Date)
    /\ NothingComputed

\* the six quantile edges e are distinct: quantile binning into five
\* labelled groups succeeds
QuantilesUsable(e) == Cardinality({e[k] : k \in 1..6}) = 6

\* the quantile group of the value with five-fold x5: group b holds the
\* values above edge b - 1 and up to edge b, the lowest value being in
\* group 1
QuantileGroup(e, x5) ==
    CHOOSE b \in 1..5 :
        \/ b = 1 /\ x5 = e[1]
        \/ e[b] < x5 /\ x5 <= e[b + 1]

\* the equal-width bin of x in a series of least value mn and range w: the
\* range cut in five equal parts, bin b holding the values above the
\* (b-1)-th cut and up to the b-th, the least value being in bin 1; a
\* series of one value is all in the middle bin
EqualWidthBin(mn, w, x) ==
    IF w = 0 THEN 3
    ELSE CHOOSE b \in 1..5 :
            \/ b = 1 /\ x = mn
            \/ (b - 1) * w < 5 * (x - mn) /\ 5 * (x - mn) <= b * w

PolicyScores(s, labels) ==
    LET e == QuantileEdges(s)
        usable == QuantilesUsable(e)
        vals == {s[j] : j \in 1..Len(s)}
        mn == Min(vals)
        w == Max(vals) - mn
    IN  Tuple([i \in 1..Len(s) |->
            IF usable THEN labels[QuantileGroup(e, 5 * s[i])]
            ELSE labels[EqualWidthBin(mn, w, s[i])]])

\* C6: each score is the label of the customer's quantile group when the
\* five quantile groups can be formed, and otherwise the label of the
\* customer's equal-width bin over the range of the metric, with labels
\* 5..1 for Recency and 1..5 for the ranks of Frequency and Monetary; no
\* score is missing, before or after fillna(3).
C6_FallbackPolicy ==
    pc \in {"rfm_scored", "rfm_filled"} =>
        /\ Column(rfm, "R")
                = PolicyScores(Column(rfm, "Recency"), <<5, 4, 3, 2, 1>>)
        /\ Column(rfm, "F")
                = PolicyScores(RankFirst(Column(rfm, "Frequency")),
                               <<1, 2, 3, 4, 5>>)
        /\ Column(rfm, "M")
                = PolicyScores(RankFirst(Column(rfm, "Monetary")),
                               <<1, 2, 3, 4, 5>>)
        /\ \A i \in Rows(rfm) : NaN \notin {rfm[i].R, rfm[i].F, rfm[i].M}

\* quantile binning of Recency has failed on a series of several values and
\* the equal-width bins gave the scores 5, 3 and 1
C6_Witness ==
    /\ pc = "rfm_scored"
    /\ ~QuantilesUsable(QuantileEdges(Column(rfm, "Recency")))
    /\ {1, 3, 5} \subseteq {rfm[i].R : i \in Rows(rfm)}

\* Cum_Pct of row i is at least Cum_Pct of row j, as floats compare: false
\* when either is not a number
AtLeast(x, y) == ~x.nan /\ ~y.nan /\ x.num * y.den >= y.num * x.den

\* C7: in the products table, sorted by descending revenue, each row's
\* Cum_Pct is >= that of the row before it.
C7_CumPctNonDecreasing ==
    pc \in AfterAbc =>
        \A i \in Rows(products) :
            i > 1 => AtLeast(products[i].Cum_Pct, products[i - 1].Cum_Pct)

\* the Timestamp t lies in the calendar month of period p
InMonth(t, p) ==
    LET y == p \div 12
        m == (p % 12) + 1
    IN  /\ ToDatetime(<<y, m, 1>>) <= t
        /\ t <= ToDatetime(<<y, m, DaysInMonth(y, m)>>)

SalesIn(p) == LET Test(r) == InMonth(r.Sale_Date, p) IN SelectSeq(df, Test)

\* C8: the monthly series is in chronological order with no month twice,
\* every sale's month has an entry, every entry's month has a sale, and
\* each entry is the sum of Total_Sale over the sales of its month.
C8_MonthlySeries ==
    pc \in AfterKpis =>
        /\ \A k, l \in Rows(monthly_sales) :
            k < l => monthly_sales[k].Period < monthly_sales[l].Period
        /\ \A j \in Rows(df) : \E k \in Rows(monthly_sales) :
            InMonth(df[j].Sale_Date, monthly_sales[k].Period)
        /\ \A k \in Rows(monthly_sales) :
            /\ SalesIn(monthly_sales[k].Period) # <<>>
            /\ monthly_sales[k].Total_Sale
                    = TotalSales(SalesIn(monthly_sales[k].Period))

\* two sales twelve months apart: two entries, none for the months between
C8_Witness ==
    /\ pc = "kpis"
    /\ Len(df) = 2
    /\ Len(monthly_sales) = 2
    /\ monthly_sales[2].Period = monthly_sales[1].Period + 12
    /\ monthly_sales[1].Total_Sale = 4
    /\ monthly_sales[2].Total_Sale = 1

LastSaleOf(t) == Max({t[i].Sale_Date : i \in Rows(t)})

\* C9: the RFM table has one row per customer of the input and no other,
\* as many rows as the unique-customer KPI; a row's Frequency and Monetary
\* are the count and the revenue of that customer's sales and its Recency
\* the days from the day after the last sale of all to the customer's last
\* sale.
C9_OneRecordPerCustomer ==
    pc \in AfterAggregate =>
        /\ CustomersOf(rfm) = CustomersOf(df)
        /\ Len(rfm) = Cardinality(CustomersOf(df))
        /\ Len(rfm) = kpi.unique_customers
        /\ \A i \in Rows(rfm) :
            /\ rfm[i].Frequency = Len(SalesTo(rfm[i].Customer))
            /\ rfm[i].Monetary = TotalSales(SalesTo(rfm[i].Customer))
            /\ rfm[i].Recency
                    = (LastSaleOf(df) + 1) - LastSaleOf(SalesTo(rfm[i].Customer))

\* two customers aggregated, one a year less recent than the other
C9_Witness ==
    /\ pc = "rfm_agg"
    /\ Len(rfm) = 2
    /\ rfm[1].Recency = 1
    /\ rfm[2].Recency > 300
    /\ rfm[1].Monetary # rfm[2].Monetary

\* C10: within one run, a smaller Recency never has a smaller R, a larger
\* Frequency never a smaller F, a larger Monetary never a smaller M; the
\* ranks binned for Frequency and Monetary are the distinct numbers 1..n,
\* and of two customers with equal Frequency (Monetary) the one in the
\* earlier row has the lower rank, so never the higher score.
C10_ScoresFollowMetric ==
    pc = "rfm_scored" =>
        LET fr == RankFirst(Column(rfm, "Frequency"))
            mr == RankFirst(Column(rfm, "Monetary"))
        IN  /\ {fr[i] : i \in Rows(rfm)} = Rows(rfm)
            /\ {mr[i] : i \in Rows(rfm)} = Rows(rfm)
            /\ \A a, b \in Rows(rfm) :
                /\ rfm[a].Recency < rfm[b].Recency => rfm[a].R >= rfm[b].R
                /\ rfm[a].Frequency > rfm[b].Frequency => rfm[a].F >= rfm[b].F
                /\ rfm[a].Monetary > rfm[b].Monetary => rfm[a].M >= rfm[b].M
                /\ (a < b /\ rfm[a].Frequency = rfm[b].Frequency)
                        => (fr[a] < fr[b] /\ rfm[a].F <= rfm[b].F)
                /\ (a < b /\ rfm[a].Monetary = rfm[b].Monetary)
                        => (mr[a] < mr[b] /\ rfm[a].M <= rfm[b].M)

\* a more frequent customer scored above a less frequent one, and two
\* equally frequent customers scored apart in row order
C10_Witness ==
    /\ pc = "rfm_scored"
    /\ \E a, b \in Rows(rfm) :
        rfm[a].Frequency > rfm[b].Frequency /\ rfm[a].F > rfm[b].F
    /\ \E a, b \in Rows(rfm) :
        a < b /\ rfm[a].Frequency = rfm[b].Frequency /\ rfm[a].F < rfm[b].F
====
